---- MODULE Spec2Model ----
(***************************************************************************)
(* Model of update-existing-release (src/src/main.ts): one process per     *)
(* run builds a Connection (constructor, lines 97-118) and executes        *)
(* Connection.run (lines 359-384) against a remote repository.             *)
(*                                                                         *)
(* Every `await` of a remote call is a scheduling point.  A state in which *)
(* pc names a call is a state in which that call is in flight; the action  *)
(* of that name is the call's completion (success or failure) followed by  *)
(* the code that runs up to the next awaited call.  setBody is started by  *)
(* the constructor and never awaited, so its completion (SetBody) is       *)
(* interleaved freely with the steps of run().                             *)
(*                                                                         *)
(* A remote call either succeeds with its effect applied, or fails with no *)
(* effect.  Release and tag names are sequences of characters, so that     *)
(* the ref-to-name conversion is computed; bodies, flag inputs and asset   *)
(* names are strings; commit SHAs and tag-object SHAs are integers.        *)
(***************************************************************************)
EXTENDS Integers, Sequences, FiniteSets, TLC

VARIABLES
    inp,        \* the action's inputs and environment, fixed for a behaviour
    remote,     \* the remote repository: tags, tagObjects, releases, nextId
    start,      \* remote as it was when the current run was launched
    run,        \* number of runs launched so far
    status,     \* "Idle" | "Running" | "Done" | "Aborted"
    exitCode,   \* -1 while the process lives, then its exit status
    pc,         \* the remote call run() is awaiting
    conn,       \* the fields of the Connection object
    fetch,      \* setBody's getCommit: "none" | "pending" | "done"
    id,         \* run()'s local `id`
    assets,     \* deleteAssetsIfTheyExist's local `assets`
    ai,         \* index of the asset whose deletion is awaited
    fi,         \* index of the file being uploaded
    calls,      \* remote calls issued by the current run, in issue order
    prev        \* how the previous run ended and the remote it started from

vars == <<inp, remote, start, run, status, exitCode, pc, conn, fetch, id,
          assets, ai, fi, calls, prev>>

\* Number of consecutive runs of the action a behaviour may contain.
MaxRuns == 2

\* process.exit(2) in Connection.fail.
ExitFailure == 2

----------------------------------------------------------------------------
\* Strings of the program, as sequences of characters.

RefsSlash == <<"r", "e", "f", "s", "/">>
HeadsSlash == <<"h", "e", "a", "d", "s", "/">>
TagsSlash == <<"t", "a", "g", "s", "/">>
RefsTagsSlash == RefsSlash \o TagsSlash
AutoSuffix == <<" ", "(", "a", "u", "t", "o", "m", "a", "t", "i", "c", "a",
                "l", "l", "y", " ", "c", "r", "e", "a", "t", "e", "d", ")">>

\* Does pattern p occur in s at position i?
OccursAt(s, p, i) ==
    /\ i + Len(p) - 1 <= Len(s)
    /\ SubSeq(s, i, i + Len(p) - 1) = p

\* String.prototype.replace(/p/, ''): remove the first occurrence of p.
replaceFirst(s, p) ==
    IF \E i \in 1..Len(s) : OccursAt(s, p, i)
    THEN LET i == CHOOSE k \in 1..Len(s) :
                      /\ OccursAt(s, p, k)
                      /\ \A j \in 1..(k - 1) : ~OccursAt(s, p, j)
         IN SubSeq(s, 1, i - 1) \o SubSeq(s, i + Len(p), Len(s))
    ELSE s

\* String.prototype.replace(/\//g, '-').
replaceSlashes(s) == [i \in 1..Len(s) |-> IF s[i] = "/" THEN "-" ELSE s[i]]

\* Connection.setRelease: the resolved release and tag names.
setRelease(releaseInput, tagInput, ref) ==
    LET release == IF releaseInput = <<>>
                   THEN replaceSlashes(
                            replaceFirst(
                                replaceFirst(
                                    replaceFirst(ref, RefsSlash),
                                    HeadsSlash),
                                TagsSlash))
                   ELSE releaseInput
        tag == IF tagInput = <<>> THEN release ELSE tagInput
    IN [release |-> release, tag |-> tag]

isTruthyString(string) == string = "true" \/ string = "yes"

isFalsyString(string) == string = "false" \/ string = "no"

setDraft(draftInput) == isTruthyString(draftInput)

setPrerelease(prereleaseInput) == ~isFalsyString(prereleaseInput)

\* Connection.setMessage: the field keeps its default '' unless the input is
\* empty.
setMessage(messageInput, release) ==
    IF messageInput = <<>> THEN release \o AutoSuffix ELSE <<>>

----------------------------------------------------------------------------
\* Local filesystem.  A path is [abs, segs]: absolute or relative, and the
\* segments between its slashes.  On this platform a backslash is no
\* separator but a character of a name, so a segment is written as the
\* parts of its name between the backslashes: <<"a.zip">> is a.zip,
\* <<"back", "slash.zip">> is back\slash.zip, <<"x", "">> is x\ and <<"">>
\* is the empty segment between two separators or after a trailing one.
\* inp.fs is the set of regular files, each an absolute normalised segs; the
\* directories are the ones the files lie in.

Backslash == "\\"

\* The path segments of names that hold no backslash.
RECURSIVE Plain(_)
Plain(names) ==
    IF names = <<>> THEN <<>> ELSE <<<<Head(names)>>>> \o Plain(Tail(names))

Workspace == Plain(<<"ws">>)
Cwd == Plain(<<"cwd">>)

isAbsolute(p) == p.abs

\* Is the segment ".", ".." or the empty one?
IsDots(seg) == seg \in {<<"">>, <<".">>, <<"..">>}

\* segs without its last segment; the root stays the root.
Parent(segs) ==
    IF segs = <<>> THEN <<>> ELSE SubSeq(segs, 1, Len(segs) - 1)

\* The lexical normalisation of path.resolve: "." and the empty segment
\* are dropped, ".." removes the segment before it.
RECURSIVE normalize(_, _, _)
normalize(segs, i, acc) ==
    IF i > Len(segs) THEN acc
    ELSE IF ~IsDots(segs[i]) THEN normalize(segs, i + 1, Append(acc, segs[i]))
    ELSE IF segs[i] = <<"..">> THEN normalize(segs, i + 1, Parent(acc))
    ELSE normalize(segs, i + 1, acc)

\* path.resolve(base, p)
resolve(base, p) ==
    [abs |-> TRUE,
     segs |-> normalize(IF p.abs THEN p.segs ELSE base \o p.segs, 1, <<>>)]

isFile(at) == at \in inp.fs

isDirectory(at) ==
    \E f \in inp.fs : Len(f) > Len(at) /\ SubSeq(f, 1, Len(at)) = at

\* The file system's own lookup of a path from directory `at`: every
\* segment, "." and ".." and the empty one after a trailing separator
\* included, is taken in a directory that exists.
RECURSIVE lookupFrom(_, _, _)
lookupFrom(segs, i, at) ==
    IF i > Len(segs) THEN [found |-> isFile(at) \/ isDirectory(at), at |-> at]
    ELSE IF ~isDirectory(at) THEN [found |-> FALSE, at |-> at]
    ELSE IF ~IsDots(segs[i]) THEN lookupFrom(segs, i + 1, Append(at, segs[i]))
    ELSE IF segs[i] = <<"..">> THEN lookupFrom(segs, i + 1, Parent(at))
    ELSE lookupFrom(segs, i + 1, at)

\* A relative path is looked up from the working directory; the empty
\* path names nothing.
lookupPath(p) ==
    IF ~p.abs /\ p.segs = <<>> THEN [found |-> FALSE, at |-> <<>>]
    ELSE lookupFrom(p.segs, 1, IF p.abs THEN <<>> ELSE Cwd)

\* fs.existsSync: true for a file and for a directory.
existsSync(p) == lookupPath(p).found

\* fs.statSync returns for a file and for a directory, throws otherwise.
statSync(p) == lookupPath(p).found

\* fs.readFileSync returns for a regular file, throws otherwise.
readFileSync(p) == lookupPath(p).found /\ isFile(lookupPath(p).at)

\* The name of a segment: its parts with the backslashes between them.
RECURSIVE segmentName(_)
segmentName(seg) ==
    IF Len(seg) = 1 THEN seg[1]
    ELSE seg[1] \o Backslash \o segmentName(Tail(seg))

\* path.basename: the last segment of the path as written, trailing
\* separators left aside.
RECURSIVE lastSegment(_)
lastSegment(segs) ==
    IF segs = <<>> THEN ""
    ELSE IF segs[Len(segs)] = <<"">>
    THEN lastSegment(SubSeq(segs, 1, Len(segs) - 1))
    ELSE segmentName(segs[Len(segs)])

basename(p) == lastSegment(p.segs)

\* tryPath.replace(/\\/g, '/') of setFiles line 426: every backslash
\* becomes a separator, so each part of a name is a segment of its own and
\* a name that ended in a backslash leaves a trailing separator.
RECURSIVE replaceBackslashes(_)
replaceBackslashes(segs) ==
    IF segs = <<>> THEN <<>>
    ELSE Plain(Head(segs)) \o replaceBackslashes(Tail(segs))

needsHunt_and(oneFile) == ~existsSync(oneFile) /\ ~isAbsolute(oneFile)

\* setFiles line 412: is the token looked up relative to the workspace?
needsHunt(oneFile) == ~existsSync(oneFile) \/ ~isAbsolute(oneFile)

\* Connection.setFiles: [ok, files]; ok is FALSE when fail() was called.
RECURSIVE setFilesFrom(_, _, _)
setFilesFrom(inputFiles, i, acc) ==
    IF i > Len(inputFiles)
    THEN [ok |-> TRUE, files |-> acc]
    ELSE LET oneFile == inputFiles[i]
             tryPath == IF needsHunt(oneFile)
                        THEN resolve(Workspace, oneFile)
                        ELSE oneFile
         IN IF ~existsSync(tryPath)
            THEN [ok |-> FALSE, files |-> acc]
            ELSE setFilesFrom(inputFiles, i + 1,
                     Append(acc, [abs |-> tryPath.abs,
                                  segs |-> replaceBackslashes(tryPath.segs)]))

setFiles(inputFiles) == setFilesFrom(inputFiles, 1, <<>>)

----------------------------------------------------------------------------
\* The remote repository and the effect of each mutating call on it.

\* Position of the first record of s whose field `name` is n, or 0.
FirstNamed(s, n) ==
    IF \E i \in 1..Len(s) : s[i].name = n
    THEN CHOOSE i \in 1..Len(s) :
             /\ s[i].name = n
             /\ \A j \in 1..(i - 1) : s[j].name # n
    ELSE 0

\* s without the records whose id is x.
RECURSIVE WithoutId(_, _)
WithoutId(s, x) ==
    IF s = <<>> THEN <<>>
    ELSE IF Head(s).id = x THEN WithoutId(Tail(s), x)
    ELSE <<Head(s)>> \o WithoutId(Tail(s), x)

\* git.createTag: a new tag object; its SHA is the next fresh id.
ApplyCreateTag(r, arg) ==
    [r EXCEPT !.tagObjects = Append(@, [sha |-> r.nextId, tag |-> arg.tag,
                                         message |-> arg.message,
                                         object |-> arg.object]),
              !.nextId = @ + 1]

\* git.createRef with ref 'refs/tags/<name>'.
ApplyCreateRef(r, arg) ==
    [r EXCEPT !.tags = Append(@, [name |-> replaceFirst(arg.ref, RefsTagsSlash),
                                   sha |-> arg.sha])]

\* git.updateRef with ref 'tags/<name>'.
ApplyUpdateRef(r, arg) ==
    [r EXCEPT !.tags = [i \in 1..Len(@) |->
        IF @[i].name = replaceFirst(arg.ref, TagsSlash)
        THEN [@[i] EXCEPT !.sha = arg.sha]
        ELSE @[i]]]

\* repos.createRelease: the new release is listed first.
ApplyCreateRelease(r, arg) ==
    [r EXCEPT !.releases = <<[id |-> r.nextId, name |-> arg.name,
                              tag_name |-> arg.tag_name, body |-> arg.body,
                              draft |-> arg.draft,
                              prerelease |-> arg.prerelease,
                              assets |-> <<>>]>> \o @,
              !.nextId = @ + 1]

\* repos.updateRelease: only the fields sent are changed.
ApplyUpdateRelease(r, arg) ==
    [r EXCEPT !.releases = [i \in 1..Len(@) |->
        IF @[i].id = arg.release_id
        THEN [@[i] EXCEPT !.name = arg.name, !.body = arg.body,
                          !.draft = arg.draft, !.prerelease = arg.prerelease]
        ELSE @[i]]]

\* repos.deleteReleaseAsset
ApplyDeleteReleaseAsset(r, arg) ==
    [r EXCEPT !.releases = [i \in 1..Len(@) |->
        [@[i] EXCEPT !.assets = WithoutId(@, arg.asset_id)]]]

\* repos.uploadReleaseAsset: `url` is the upload_url of a release and names
\* the release that receives the asset.
ApplyUploadReleaseAsset(r, arg) ==
    [r EXCEPT !.releases = [i \in 1..Len(@) |->
        IF @[i].id = arg.url
        THEN [@[i] EXCEPT !.assets =
                  Append(@, [id |-> r.nextId, name |-> arg.name])]
        ELSE @[i]],
              !.nextId = @ + 1]

\* The platform refuses a second asset of the same name on a release.
NameTaken(r, arg) ==
    \E i \in 1..Len(r.releases) :
        /\ r.releases[i].id = arg.url
        /\ \E k \in 1..Len(r.releases[i].assets) :
               r.releases[i].assets[k].name = arg.name

----------------------------------------------------------------------------
\* Lookups of the Connection on the data a list call returned.

getTag_always(tags) == TRUE

getTag_objcmp(tags) == FALSE

\* Connection.getTag: is there a tag whose name is this.tag?
getTag(tags) == \E i \in 1..Len(tags) : tags[i].name = conn.tag

doesReleaseExist_byTag(releases) ==
    \E i \in 1..Len(releases) : releases[i].tag_name = conn.tag

\* Connection.doesReleaseExist: releases.includes(this.release)
doesReleaseExist(releases) ==
    \E i \in 1..Len(releases) : releases[i].name = conn.release

\* Connection.getReleaseID: id of the first release named this.release, or
\* -1 when the loop ends without a match (the caller then fails).
getReleaseID(releases) ==
    LET i == FirstNamed(releases, conn.release)
    IN IF i = 0 THEN -1 ELSE releases[i].id

\* Connection.getReleaseUploadURL: upload_url of the first release named
\* this.release (the URL is represented by the id of the release it
\* addresses), or -1.
getReleaseUploadURL(repos) ==
    LET i == FirstNamed(repos, conn.release)
    IN IF i = 0 THEN -1 ELSE repos[i].id

\* repos.listReleaseAssets for a release id.
listReleaseAssets(releases, release_id) ==
    IF \E i \in 1..Len(releases) : releases[i].id = release_id
    THEN releases[CHOOSE i \in 1..Len(releases) :
                      releases[i].id = release_id].assets
    ELSE <<>>

shouldDelete_all(asset) == TRUE

shouldDelete_first(asset) ==
    \/ isTruthyString(inp.replace)
    \/ /\ Len(conn.files) >= 1
       /\ asset.name = basename(conn.files[1])

\* deleteAssetsIfTheyExist lines 198-206.
shouldDelete(asset) ==
    \/ isTruthyString(inp.replace)
    \/ \E k \in 1..Len(conn.files) : asset.name = basename(conn.files[k])

\* The next asset after position `from` that the loop deletes, or 0.
NextDelete(as, from) ==
    IF \E j \in (from + 1)..Len(as) : shouldDelete(as[j])
    THEN CHOOSE j \in (from + 1)..Len(as) :
             /\ shouldDelete(as[j])
             /\ \A k \in (from + 1)..(j - 1) : ~shouldDelete(as[k])
    ELSE 0

uploadFile_reversed(k) == conn.files[Len(conn.files) + 1 - k]

\* uploadAssets line 482: the file of the k-th iteration.
uploadFile(k) == conn.files[k]

----------------------------------------------------------------------------
\* Requests.

Req(op, arg) == [op |-> op, st |-> "pending", arg |-> arg]

ListTagsReq == Req("listTags", <<>>)
ListReleasesReq == Req("listReleases", <<>>)
GetCommitReq == Req("getCommit", [commit_sha |-> inp.sha])

\* createLightweightTag
CreateTagReq ==
    Req("createTag", [tag |-> conn.tag, message |-> conn.message,
                      object |-> inp.sha])

CreateRefReq(tagObjectSha) ==
    Req("createRef", [ref |-> RefsTagsSlash \o conn.tag,
                      sha |-> tagObjectSha])

CreateReleaseReq_nameAsTag ==
    Req("createRelease", [tag_name |-> conn.release, name |-> conn.release,
                          body |-> conn.body, draft |-> conn.draft,
                          prerelease |-> conn.prerelease])

\* createRelease lines 134-143
CreateReleaseReq ==
    Req("createRelease", [tag_name |-> conn.tag, name |-> conn.release,
                          body |-> conn.body, draft |-> conn.draft,
                          prerelease |-> conn.prerelease])

UpdateReleaseReq_firstListed(release_id) ==
    Req("updateRelease", [release_id |-> remote.releases[1].id,
                          name |-> conn.release,
                          body |-> conn.body, draft |-> conn.draft,
                          prerelease |-> conn.prerelease])

UpdateReleaseReq(release_id) ==
    Req("updateRelease", [release_id |-> release_id, name |-> conn.release,
                          body |-> conn.body, draft |-> conn.draft,
                          prerelease |-> conn.prerelease])

ListReleaseAssetsReq(release_id) ==
    Req("listReleaseAssets", [release_id |-> release_id])

DeleteReleaseAssetReq(asset) ==
    Req("deleteReleaseAsset", [asset_id |-> asset.id])

UploadReleaseAssetReq(release_id, url, oneFile) ==
    Req("uploadReleaseAsset", [release_id |-> release_id, url |-> url,
                               name |-> basename(oneFile)])

UpdateRefReq_releaseName ==
    Req("updateRef", [ref |-> TagsSlash \o conn.release, sha |-> inp.sha])

UpdateRefReq ==
    Req("updateRef", [ref |-> TagsSlash \o conn.tag, sha |-> inp.sha])

\* The log with the awaited call of run() completed.
Completed(st) == [calls EXCEPT ![Len(calls)].st = st]

\* The request run() is awaiting.
Awaited == calls[Len(calls)]

fail_noexit ==
    /\ status' = status
    /\ exitCode' = exitCode

\* Connection.fail: process.exit(2).
fail ==
    /\ status' = "Aborted"
    /\ exitCode' = ExitFailure

\* A failed awaited call of run(): the catch block calls fail().
Abort ==
    /\ fail
    /\ calls' = Completed("failed")
    /\ UNCHANGED <<inp, remote, start, run, pc, conn, fetch, id, assets, ai, fi,
                   prev>>

\* The awaited list call succeeded but holds no release of the name:
\* getReleaseID line 287 and getReleaseUploadURL line 316 call fail().
NotFound ==
    /\ fail
    /\ calls' = Completed("ok")
    /\ UNCHANGED <<inp, remote, start, run, pc, conn, fetch, id, assets, ai, fi,
                   prev>>

\* The awaited call succeeded and run() goes on to await nextPc, issuing the
\* requests reqs (one request, or none when run() returns).
\* A local statement threw after the awaited call had returned: the catch
\* block around it calls fail() (uploadAssets line 516).
Thrown ==
    /\ fail
    /\ calls' = Completed("ok")
    /\ UNCHANGED <<inp, remote, start, run, pc, conn, fetch, id, assets, ai, fi,
                   prev>>

Proceed(nextPc, reqs) ==
    /\ pc' = nextPc
    /\ calls' = Completed("ok") \o reqs
    /\ status' = IF nextPc = "done" THEN "Done" ELSE status
    /\ exitCode' = IF nextPc = "done" /\ fetch # "pending" THEN 0 ELSE exitCode
    /\ prev' = prev

Awaiting(p) ==
    /\ status = "Running"
    /\ pc = p
    /\ Awaited.st = "pending"

\* run() lines 380-383, after the uploads.
AfterUploads ==
    IF ~isFalsyString(inp.updateTag)
    THEN Proceed("updateRef", <<UpdateRefReq>>)
    ELSE Proceed("done", <<>>)

UploadFrom_firstOnly(k) ==
    IF k <= Len(conn.files) /\ k <= 1
    THEN /\ fi' = k
         /\ IF statSync(conn.files[k])
            THEN Proceed("getReleaseUploadURL", <<ListReleasesReq>>)
            ELSE /\ fail
                 /\ calls' = Completed("ok")
                 /\ pc' = pc
                 /\ prev' = prev
    ELSE /\ fi' = fi
         /\ AfterUploads

\* uploadAssets: iteration k of the loop over this.files, or the end of it.
\* statSync (line 493) comes before the first await of the iteration: when
\* it throws, the catch of line 516 calls fail() and nothing is issued.
UploadFrom(k) ==
    IF k <= Len(conn.files)
    THEN /\ fi' = k
         /\ IF statSync(conn.files[k])
            THEN Proceed("getReleaseUploadURL", <<ListReleasesReq>>)
            ELSE /\ fail
                 /\ calls' = Completed("ok")
                 /\ pc' = pc
                 /\ prev' = prev
    ELSE /\ fi' = fi
         /\ AfterUploads

\* deleteAssetsIfTheyExist: the loop over `as` after position `from`, then
\* uploadAssets.
DeleteFrom(as, from) ==
    LET j == NextDelete(as, from)
    IN IF j # 0
       THEN /\ ai' = j
            /\ fi' = fi
            /\ Proceed("deleteReleaseAsset", <<DeleteReleaseAssetReq(as[j])>>)
       ELSE /\ ai' = ai
            /\ UploadFrom(1)

----------------------------------------------------------------------------
\* Inputs and initial remote states.

\* The declared defaults of the fields release and tag (lines 54, 65).
UnknownRelease ==
    <<"u", "n", "k", "n", "o", "w", "n", "-", "r", "e", "l", "e", "a", "s", "e">>
UnknownTag == <<"u", "n", "k", "n", "o", "w", "n", "-", "t", "a", "g">>

V1 == <<"v", "1">>
T2 == <<"t", "2">>
Old == <<"o", "l", "d">>
Other == <<"z", "z">>
RefTagsV1 == RefsTagsSlash \o V1
RefHeadsMain == RefsSlash \o HeadsSlash \o <<"m", "a", "i", "n">>
CommitMessage == "commit message"

\* release, tag and message inputs with the ref of the build; the resolved
\* release name is v1, the resolved tag v1 or t2.
\* A workflow that leaves every optional input to its default, and one that
\* sets release, tag, message, draft and prerelease itself.
NameInputs ==
    { [release |-> <<>>, tag |-> <<>>, ref |-> RefTagsV1, message |-> <<>>,
       draft |-> "", prerelease |-> ""],
      [release |-> V1, tag |-> T2, ref |-> RefHeadsMain,
       message |-> <<"m", "s", "g">>, draft |-> "true",
       prerelease |-> "false"] }

BodyInputs == {"", "notes"}
ReplaceInputs == {"", "true"}
UpdateTagInputs == {"", "true", "false"}

Fs ==
    { Plain(<<"ws", "out", "a.zip">>), Plain(<<"ws", "a.zip">>),
      Plain(<<"ws", "b.zip">>), Plain(<<"ws", "back", "slash.zip">>),
      <<<<"ws">>, <<"back", "slash.zip">>>>,
      <<<<"ws">>, <<"b.zip", "">>>>,
      Plain(<<"cwd", "c.txt">>) }

FileInputs ==
    { <<[abs |-> TRUE, segs |-> Plain(<<"ws", "out", "a.zip">>)]>>,
      <<[abs |-> FALSE, segs |-> Plain(<<"out", "a.zip">>)],
        [abs |-> FALSE, segs |-> Plain(<<"..", "ws", "b.zip">>)]>>,
      <<[abs |-> FALSE, segs |-> Plain(<<"b.zip">>)],
        [abs |-> FALSE, segs |-> Plain(<<"nope.bin">>)]>>,
      <<[abs |-> FALSE, segs |-> Plain(<<"c.txt">>)]>>,
      <<[abs |-> TRUE, segs |-> Plain(<<"ws", "out", "a.zip">>)],
        [abs |-> TRUE, segs |-> Plain(<<"ws", "gone.zip">>)]>>,
      <<[abs |-> FALSE, segs |-> Plain(<<"out", "a.zip">>)],
        [abs |-> FALSE, segs |-> Plain(<<"a.zip">>)]>>,
      <<[abs |-> FALSE, segs |-> Plain(<<".", "out">>)]>>,
      <<[abs |-> FALSE, segs |-> <<<<"back", "slash.zip">>>>]>>,
      <<[abs |-> FALSE, segs |-> <<<<"b.zip", "">>>>]>>,
      <<[abs |-> FALSE, segs |-> <<<<"b.zip", "">>, <<"">>>>]>> }

\* Tags of the remote before the first run; commit 0 is an older commit than
\* the build's commit 1.
InitialTags ==
    { <<[name |-> Old, sha |-> 0]>>,
      <<[name |-> Old, sha |-> 0], [name |-> V1, sha |-> 0],
        [name |-> T2, sha |-> 0]>> }

OtherRelease ==
    [id |-> 1, name |-> Other, tag_name |-> Old, body |-> "other",
     draft |-> FALSE, prerelease |-> FALSE,
     assets |-> <<[id |-> 11, name |-> "a.zip"]>>]

ExistingRelease(as) ==
    [id |-> 2, name |-> V1, tag_name |-> Old, body |-> "old notes",
     draft |-> FALSE, prerelease |-> FALSE, assets |-> as]

InitialReleases ==
    { <<OtherRelease>>,
      <<ExistingRelease(<<[id |-> 21, name |-> "a.zip"],
                          [id |-> 22, name |-> "b.zip"]>>), OtherRelease>>,
      <<OtherRelease, ExistingRelease(<<[id |-> 22, name |-> "b.zip"]>>)>> }

Init ==
    /\ \E n \in NameInputs, b \in BodyInputs, rp \in ReplaceInputs,
          ut \in UpdateTagInputs, f \in FileInputs :
          inp = [release |-> n.release, tag |-> n.tag, ref |-> n.ref,
                 message |-> n.message, body |-> b, draft |-> n.draft,
                 prerelease |-> n.prerelease, replace |-> rp,
                 updateTag |-> ut, files |-> f, fs |-> Fs, sha |-> 1]
    /\ \E t \in InitialTags, rl \in InitialReleases :
          remote = [tags |-> t, tagObjects |-> <<>>, releases |-> rl,
                    nextId |-> 100]
    /\ start = remote
    /\ run = 0
    /\ status = "Idle"
    /\ exitCode = -1
    /\ pc = "idle"
    /\ conn = [release |-> UnknownRelease, tag |-> UnknownTag,
               message |-> <<>>, body |-> "", draft |-> FALSE,
               prerelease |-> FALSE, files |-> <<>>]
    /\ fetch = "none"
    /\ id = -1
    /\ assets = <<>>
    /\ ai = 0
    /\ fi = 0
    /\ calls = <<>>
    /\ prev = [status |-> "Idle", start |-> remote]

----------------------------------------------------------------------------
\* Actions.

\* Module top level (lines 530-533): new Connection(), whose constructor
\* resolves the inputs and starts setBody, then connection.run() up to its
\* first await (getTag's listTags).
Launch ==
    /\ run < MaxRuns
    /\ \/ status = "Idle"
       \/ status = "Aborted"
       \/ status = "Done" /\ fetch # "pending"
    /\ run' = run + 1
    /\ start' = remote
    /\ prev' = [status |-> status, start |-> start]
    /\ id' = -1
    /\ assets' = <<>>
    /\ ai' = 0
    /\ fi' = 0
    /\ UNCHANGED <<inp, remote>>
    /\ LET names == setRelease(inp.release, inp.tag, inp.ref)
           files == setFiles(inp.files)
       IN IF files.ok
          THEN /\ conn' = [release |-> names.release, tag |-> names.tag,
                           message |-> setMessage(inp.message, names.release),
                           body |-> inp.body,
                           draft |-> setDraft(inp.draft),
                           prerelease |-> setPrerelease(inp.prerelease),
                           files |-> files.files]
               /\ fetch' = IF inp.body = "" THEN "pending" ELSE "none"
               /\ calls' = (IF inp.body = "" THEN <<GetCommitReq>> ELSE <<>>)
                               \o <<ListTagsReq>>
               /\ pc' = "getTag"
               /\ status' = "Running"
               /\ exitCode' = -1
          ELSE /\ conn' = [release |-> names.release, tag |-> names.tag,
                           message |-> <<>>, body |-> "",
                           draft |-> setDraft(inp.draft),
                           prerelease |-> setPrerelease(inp.prerelease),
                           files |-> files.files]
               /\ fetch' = "none"
               /\ calls' = <<>>
               /\ pc' = "setFiles"
               /\ fail

\* setBody after its await (lines 391-399): the commit message becomes the
\* body, or the catch block fails the process.
SetBody ==
    /\ fetch = "pending"
    /\ status \in {"Running", "Done"}
    /\ \E ok \in BOOLEAN :
          IF ok
          THEN /\ conn' = [conn EXCEPT !.body = CommitMessage]
               /\ fetch' = "done"
               /\ calls' = [calls EXCEPT ![1].st = "ok"]
               /\ exitCode' = IF status = "Done" THEN 0 ELSE exitCode
               /\ UNCHANGED status
          ELSE /\ fail
               /\ calls' = [calls EXCEPT ![1].st = "failed"]
               /\ UNCHANGED <<conn, fetch>>
    /\ UNCHANGED <<inp, remote, start, run, pc, id, assets, ai, fi, prev>>

\* run() line 360: the first getTag.
GetTag ==
    /\ Awaiting("getTag")
    /\ \/ Abort
       \/ /\ IF getTag(remote.tags)
             THEN Proceed("doesReleaseExist", <<ListReleasesReq>>)
             ELSE Proceed("createTag", <<CreateTagReq>>)
          /\ UNCHANGED <<inp, remote, start, run, conn, fetch, id, assets,
                         ai, fi>>

\* createTag line 178: the tag object is created, createRef is issued.
CreateTag ==
    /\ Awaiting("createTag")
    /\ \/ Abort
       \/ /\ remote' = ApplyCreateTag(remote, Awaited.arg)
          /\ Proceed("createRef", <<CreateRefReq(remote.nextId)>>)
          /\ UNCHANGED <<inp, start, run, conn, fetch, id, assets, ai, fi>>

\* createTag lines 179-185, then run() line 365: the second getTag.
CreateRef ==
    /\ Awaiting("createRef")
    /\ \/ Abort
       \/ /\ remote' = ApplyCreateRef(remote, Awaited.arg)
          /\ Proceed("getTagAgain", <<ListTagsReq>>)
          /\ UNCHANGED <<inp, start, run, conn, fetch, id, assets, ai, fi>>

\* run() line 365 completes; line 368 asks doesReleaseExist.
GetTagAgain ==
    /\ Awaiting("getTagAgain")
    /\ \/ Abort
       \/ /\ Proceed("doesReleaseExist", <<ListReleasesReq>>)
          /\ UNCHANGED <<inp, remote, start, run, conn, fetch, id, assets,
                         ai, fi>>

\* run() lines 368-372: createRelease when the name is not listed, else
\* straight to getReleaseID.
DoesReleaseExist ==
    /\ Awaiting("doesReleaseExist")
    /\ \/ Abort
       \/ /\ IF doesReleaseExist(remote.releases)
             THEN Proceed("getReleaseID", <<ListReleasesReq>>)
             ELSE Proceed("createRelease", <<CreateReleaseReq>>)
          /\ UNCHANGED <<inp, remote, start, run, conn, fetch, id, assets,
                         ai, fi>>

\* createRelease completes; run() line 372 asks getReleaseID.
CreateRelease ==
    /\ Awaiting("createRelease")
    /\ \/ Abort
       \/ /\ remote' = ApplyCreateRelease(remote, Awaited.arg)
          /\ Proceed("getReleaseID", <<ListReleasesReq>>)
          /\ UNCHANGED <<inp, start, run, conn, fetch, id, assets, ai, fi>>

\* run() lines 372-376: the id is resolved and updateRelease issued; no
\* release of that name is a failure.
GetReleaseID ==
    /\ Awaiting("getReleaseID")
    /\ \/ Abort
       \/ /\ getReleaseID(remote.releases) < 0
          /\ NotFound
       \/ /\ getReleaseID(remote.releases) >= 0
          /\ id' = getReleaseID(remote.releases)
          /\ Proceed("updateRelease", <<UpdateReleaseReq(id')>>)
          /\ UNCHANGED <<inp, remote, start, run, conn, fetch, assets, ai, fi>>

\* updateRelease completes; deleteAssetsIfTheyExist calls getReleaseAssets,
\* which calls getReleaseID.
UpdateRelease ==
    /\ Awaiting("updateRelease")
    /\ \/ Abort
       \/ /\ remote' = ApplyUpdateRelease(remote, Awaited.arg)
          /\ Proceed("getReleaseAssets", <<ListReleasesReq>>)
          /\ UNCHANGED <<inp, start, run, conn, fetch, id, assets, ai, fi>>

\* getReleaseAssets lines 251-258: listReleaseAssets for the id found.
GetReleaseAssets ==
    /\ Awaiting("getReleaseAssets")
    /\ \/ Abort
       \/ /\ getReleaseID(remote.releases) < 0
          /\ NotFound
       \/ /\ getReleaseID(remote.releases) >= 0
          /\ Proceed("listReleaseAssets",
                     <<ListReleaseAssetsReq(getReleaseID(remote.releases))>>)
          /\ UNCHANGED <<inp, remote, start, run, conn, fetch, id, assets,
                         ai, fi>>

\* deleteAssetsIfTheyExist line 194 completes; the loop runs to its first
\* deletion, or past its end into uploadAssets.
ListReleaseAssets ==
    /\ Awaiting("listReleaseAssets")
    /\ \/ Abort
       \/ /\ assets' = listReleaseAssets(remote.releases,
                                         Awaited.arg.release_id)
          /\ DeleteFrom(assets', 0)
          /\ UNCHANGED <<inp, remote, start, run, conn, fetch, id>>

\* deleteAssetsIfTheyExist lines 210-217: one deletion completes and the
\* loop goes on.
DeleteReleaseAsset ==
    /\ Awaiting("deleteReleaseAsset")
    /\ \/ Abort
       \/ /\ remote' = ApplyDeleteReleaseAsset(remote, Awaited.arg)
          /\ DeleteFrom(assets, ai)
          /\ UNCHANGED <<inp, start, run, conn, fetch, id, assets>>

\* uploadAssets lines 506-513: the upload URL is resolved, the file is read
\* (line 512) and the upload issued; a file that cannot be read throws into
\* the catch of line 516 before anything is issued.
GetReleaseUploadURL ==
    /\ Awaiting("getReleaseUploadURL")
    /\ \/ Abort
       \/ /\ getReleaseUploadURL(remote.releases) < 0
          /\ NotFound
       \/ /\ getReleaseUploadURL(remote.releases) >= 0
          /\ ~readFileSync(uploadFile(fi))
          /\ Thrown
       \/ /\ getReleaseUploadURL(remote.releases) >= 0
          /\ readFileSync(uploadFile(fi))
          /\ Proceed("uploadReleaseAsset",
                     <<UploadReleaseAssetReq(id,
                           getReleaseUploadURL(remote.releases),
                           uploadFile(fi))>>)
          /\ UNCHANGED <<inp, remote, start, run, conn, fetch, id, assets,
                         ai, fi>>

\* uploadAssets lines 506-514: one upload completes; the next file, or run()
\* lines 380-383.
UploadReleaseAsset ==
    /\ Awaiting("uploadReleaseAsset")
    /\ \/ Abort
       \/ /\ ~NameTaken(remote, Awaited.arg)
          /\ remote' = ApplyUploadReleaseAsset(remote, Awaited.arg)
          /\ UploadFrom(fi + 1)
          /\ UNCHANGED <<inp, start, run, conn, fetch, id, assets, ai>>

\* updateTag completes and run() returns.
UpdateRef ==
    /\ Awaiting("updateRef")
    /\ \/ Abort
       \/ /\ remote' = ApplyUpdateRef(remote, Awaited.arg)
          /\ Proceed("done", <<>>)
          /\ UNCHANGED <<inp, start, run, conn, fetch, id, assets, ai, fi>>

Next ==
    \/ Launch
    \/ SetBody
    \/ GetTag
    \/ CreateTag
    \/ CreateRef
    \/ GetTagAgain
    \/ DoesReleaseExist
    \/ CreateRelease
    \/ GetReleaseID
    \/ UpdateRelease
    \/ GetReleaseAssets
    \/ ListReleaseAssets
    \/ DeleteReleaseAsset
    \/ GetReleaseUploadURL
    \/ UploadReleaseAsset
    \/ UpdateRef

Spec == Init /\ [][Next]_vars

----------------------------------------------------------------------------
\* Vocabulary of the properties: what the log of the current run shows.

\* Positions of the calls of an operation in the log.
Ops(op) == {i \in 1..Len(calls) : calls[i].op = op}
Issued(op) == Ops(op) # {}
OkOps(op) == {i \in Ops(op) : calls[i].st = "ok"}
AnyFailed == \E i \in 1..Len(calls) : calls[i].st = "failed"

\* Position of the k-th call of an operation.
NthOp(op, k) ==
    CHOOSE i \in Ops(op) : Cardinality({j \in Ops(op) : j <= i}) = k

\* The releases of r that carry the resolved release name.
Named(r) == {i \in 1..Len(r.releases) : r.releases[i].name = conn.release}
TheRelease(r) == r.releases[FirstNamed(r.releases, conn.release)]
ReleaseExisted == Named(start) # {}

\* What the inputs ask for.
ReplaceAll == inp.replace \in {"true", "yes"}
InputBasenames == {basename(inp.files[k]) : k \in 1..Len(inp.files)}
ExpectedBody == IF inp.body = "" THEN CommitMessage ELSE inp.body
ExpectedDraft == inp.draft \in {"true", "yes"}
ExpectedPrerelease == inp.prerelease \notin {"false", "no"}

\* The effect of one logged call on the remote, and of a whole log.
ApplyCall(r, c) ==
    IF c.st # "ok" THEN r
    ELSE CASE c.op = "createTag" -> ApplyCreateTag(r, c.arg)
           [] c.op = "createRef" -> ApplyCreateRef(r, c.arg)
           [] c.op = "createRelease" -> ApplyCreateRelease(r, c.arg)
           [] c.op = "updateRelease" -> ApplyUpdateRelease(r, c.arg)
           [] c.op = "deleteReleaseAsset" -> ApplyDeleteReleaseAsset(r, c.arg)
           [] c.op = "uploadReleaseAsset" -> ApplyUploadReleaseAsset(r, c.arg)
           [] c.op = "updateRef" -> ApplyUpdateRef(r, c.arg)
           [] OTHER -> r

RECURSIVE Replay(_, _, _)
Replay(r, log, i) ==
    IF i > Len(log) THEN r ELSE Replay(ApplyCall(r, log[i]), log, i + 1)

----------------------------------------------------------------------------
\* C1

\* Two complete runs in a row, the first from a remote without a release of
\* the resolved name.
TwoCompleteRuns ==
    /\ run >= 2
    /\ prev.status = "Done"
    /\ status = "Done"
    /\ fetch # "pending"
    /\ \A i \in 1..Len(prev.start.releases) :
           prev.start.releases[i].name # conn.release

\* After them there is one release of that name, and the second run found
\* it and did not create one.
OneReleaseAfterTwoRuns ==
    TwoCompleteRuns =>
        /\ Cardinality(Named(remote)) = 1
        /\ ReleaseExisted
        /\ ~Issued("createRelease")
        /\ TheRelease(remote).draft = ExpectedDraft
        /\ TheRelease(remote).prerelease = ExpectedPrerelease

\* C1: two consecutive complete runs with the same input, started where no
\* release of the name exists, leave exactly one release of that name with
\* the body, draft and prerelease values of the input (the commit message
\* standing in for an empty body), and the second run issues no
\* createRelease.
C1_ReleaseConvergence ==
    /\ OneReleaseAfterTwoRuns
    /\ TwoCompleteRuns => TheRelease(remote).body = ExpectedBody

----------------------------------------------------------------------------
\* C2

\* The assets of the release when the asset stage lists them: those the
\* release had at the start of the run, none if the run created it.
ExistingAssets ==
    IF ReleaseExisted
    THEN LET as == start.releases[FirstNamed(start.releases,
                                             conn.release)].assets
         IN {as[k] : k \in 1..Len(as)}
    ELSE {}

DeletionSet ==
    {a \in ExistingAssets : ReplaceAll \/ a.name \in InputBasenames}

\* The deletion loop has run to its end.
DeletionsDone ==
    \/ status = "Done"
    \/ \E i \in Ops("listReleaseAssets") :
           \E j \in (i + 1)..Len(calls) : calls[j].op # "deleteReleaseAsset"

AssetsNow ==
    LET as == TheRelease(remote).assets IN {as[k] : k \in 1..Len(as)}

\* C2: the asset stage deletes exactly the existing assets that replaceAll
\* or a name equal to an input basename marks; without replaceAll an asset
\* matching no input basename is not deleted and is on the release when the
\* run is done.
C2_AssetSelectivity ==
    /\ \A i \in Ops("deleteReleaseAsset") :
           calls[i].arg.asset_id \in {a.id : a \in DeletionSet}
    /\ DeletionsDone =>
           {calls[i].arg.asset_id : i \in OkOps("deleteReleaseAsset")}
               = {a.id : a \in DeletionSet}
    /\ (status = "Done" /\ ~ReplaceAll) =>
           \A a \in ExistingAssets :
               a.name \notin InputBasenames => a \in AssetsNow

\* No input file has a backslash in its name.
NoBackslashInput ==
    \A k \in 1..Len(inp.files) :
        \A i \in 1..Len(inp.files[k].segs) : Len(inp.files[k].segs[i]) = 1

\* The statement of C2 on the inputs that setFiles line 426 leaves as they
\* are.
C2_WithoutBackslash == NoBackslashInput => C2_AssetSelectivity

C2_Witness ==
    /\ status = "Done"
    /\ ~ReplaceAll
    /\ DeletionSet # {}
    /\ DeletionSet # ExistingAssets

----------------------------------------------------------------------------
\* C3

TagExisted == \E i \in 1..Len(start.tags) : start.tags[i].name = conn.tag

\* The tag stage is over once run() asks for the releases.
TagStageDone == Issued("listReleases")

\* C3: a run whose tag is absent creates one tag object and one ref for it;
\* a run whose tag exists issues no createTag and no createRef, and the tag
\* stage leaves every tag and tag object as it was, whatever commit the tag
\* points at.
C3_TagCreateOnce ==
    /\ Cardinality(Ops("createTag")) <= 1
    /\ Cardinality(Ops("createRef")) <= 1
    /\ TagExisted =>
           /\ ~Issued("createTag")
           /\ ~Issued("createRef")
           /\ remote.tagObjects = start.tagObjects
           /\ OkOps("updateRef") = {} => remote.tags = start.tags
    /\ (status # "Idle" /\ ~TagExisted /\ TagStageDone) =>
           /\ Cardinality(OkOps("createTag")) = 1
           /\ Cardinality(OkOps("createRef")) = 1
           /\ Len(remote.tagObjects) = Len(start.tagObjects) + 1
           /\ Len(remote.tags) = Len(start.tags) + 1
           /\ Cardinality({i \in 1..Len(remote.tags) :
                               remote.tags[i].name = conn.tag}) = 1
           /\ calls[NthOp("createRef", 1)].arg.ref = RefsTagsSlash \o conn.tag

C3_Witness ==
    /\ TagExisted
    /\ TagStageDone
    /\ status = "Done"
    /\ \E i \in 1..Len(start.tags) :
           start.tags[i].name = conn.tag /\ start.tags[i].sha # inp.sha
    /\ run = 2
    /\ Len(remote.tagObjects) = 1

----------------------------------------------------------------------------
\* C4

\* C4: a failed remote call aborts the run with a non-zero exit status; an
\* aborted run issues nothing more and changes nothing more, and the remote
\* is what the calls that succeeded made of it.
C4_FailFast ==
    /\ [](AnyFailed => status = "Aborted" /\ exitCode = ExitFailure)
    /\ [](remote = Replay(start, calls, 1))
    /\ [][(status = "Aborted" /\ run' = run) =>
            (remote' = remote /\ calls' = calls /\ status' = "Aborted")]_vars

C4_Witness ==
    /\ status = "Aborted"
    /\ calls # <<>>
    /\ calls[Len(calls)].op = "uploadReleaseAsset"
    /\ calls[Len(calls)].st = "failed"
    /\ OkOps("deleteReleaseAsset") # {}
    /\ remote # start

----------------------------------------------------------------------------
\* C5

\* C5: with an empty body input, every createRelease carries the commit
\* message as its body.
C5_BodyDefault ==
    inp.body = "" =>
        \A i \in Ops("createRelease") : calls[i].arg.body = CommitMessage

----------------------------------------------------------------------------
\* C6

\* The commit the run's tag points at once the tag stage is over: what the
\* tag had at the start, or the tag object the run's createRef named.
TagTargetAfterTagStage ==
    IF TagExisted
    THEN start.tags[FirstNamed(start.tags, conn.tag)].sha
    ELSE calls[NthOp("createRef", 1)].arg.sha

\* C6: updateRef is issued only when the update-tag option is set to a true
\* value; in every other run the tag ends where the tag stage left it.
C6_RepointOptIn ==
    /\ Issued("updateRef") => inp.updateTag \in {"true", "yes"}
    /\ (status = "Done" /\ inp.updateTag \notin {"true", "yes"}) =>
           remote.tags[FirstNamed(remote.tags, conn.tag)].sha
               = TagTargetAfterTagStage

----------------------------------------------------------------------------
\* C7

\* run() has the answer of doesReleaseExist.
LookupDone ==
    \E i \in Ops("listReleases") :
        /\ calls[i].st = "ok"
        /\ \A j \in Ops("listReleases") : i <= j

\* C7 as claimed: createRelease exactly when the lookup finds no release of
\* the name, updateRelease exactly when it finds one, never both in a run.
C7_CreateOrUpdateNeverBoth ==
    /\ LookupDone => (Issued("createRelease") <=> ~ReleaseExisted)
    /\ ~LookupDone => ~Issued("createRelease")
    /\ Issued("updateRelease") => ReleaseExisted
    /\ status = "Done" => (Issued("updateRelease") <=> ReleaseExisted)

\* C7 as amended: createRelease exactly when the lookup finds no release of
\* the name, and at most once; updateRelease once in every run that resolves
\* the release id, on the release of that name, after the createRelease of
\* the run (if any) has succeeded.
C7_CreateIfAbsentThenUpdate ==
    /\ LookupDone => (Issued("createRelease") <=> ~ReleaseExisted)
    /\ ~LookupDone => ~Issued("createRelease")
    /\ Cardinality(Ops("createRelease")) <= 1
    /\ Cardinality(Ops("updateRelease")) <= 1
    /\ status = "Done" => Cardinality(OkOps("updateRelease")) = 1
    /\ \A u \in Ops("updateRelease") :
           /\ \A c \in Ops("createRelease") : c < u /\ calls[c].st = "ok"
           /\ Named(remote) # {}
           /\ calls[u].arg.release_id
                  = remote.releases[FirstNamed(remote.releases,
                                               conn.release)].id

C7_Witness ==
    /\ status = "Done"
    /\ OkOps("createRelease") # {}
    /\ OkOps("updateRelease") # {}

----------------------------------------------------------------------------
\* C8

\* C8 as claimed: after a successful run the release of the name points at
\* the resolved tag, created or not.
C8_ReleasePointsAtTag ==
    status = "Done" =>
        remote.releases[FirstNamed(remote.releases, conn.release)].tag_name
            = conn.tag

\* C8 as amended: after a successful run, a release the run created points
\* at the resolved tag; a release that existed keeps the tag name it had.
C8_TagNameSetOnCreateOnly ==
    status = "Done" =>
        remote.releases[FirstNamed(remote.releases, conn.release)].tag_name
            = IF ReleaseExisted
              THEN start.releases[FirstNamed(start.releases,
                                             conn.release)].tag_name
              ELSE setRelease(inp.release, inp.tag, inp.ref).tag

C8_Witness ==
    /\ status = "Done"
    /\ ~ReleaseExisted
    /\ conn.tag # conn.release
    /\ TheRelease(remote).tag_name = T2

----------------------------------------------------------------------------
\* C9

\* Some input file exists neither as the absolute path given nor under the
\* workspace root.
SomeFileMissing ==
    \E k \in 1..Len(inp.files) :
        LET f == inp.files[k] IN
            /\ ~(f.abs /\ existsSync(f))
            /\ ~existsSync(resolve(Workspace, f))

\* C9: with a missing input file a run ends in failure without issuing any
\* remote call, and the remote stays as it was before the first run.
C9_MissingFileFailsFast ==
    SomeFileMissing =>
        /\ status \in {"Idle", "Aborted"}
        /\ run >= 1 => exitCode = ExitFailure
        /\ calls = <<>>
        /\ remote = start
        /\ remote = prev.start

C9_Witness ==
    /\ SomeFileMissing
    /\ status = "Aborted"
    /\ run = 2
    /\ \E k \in 1..Len(inp.files) : inp.files[k].segs = Plain(<<"c.txt">>)

----------------------------------------------------------------------------
\* C10

\* C10: every deletion of a run has completed before its first upload is
\* issued; uploads go one at a time, the k-th being the k-th input file
\* under its basename.
C10_DeleteThenUploadInOrder ==
    /\ \A d \in Ops("deleteReleaseAsset"), u \in Ops("uploadReleaseAsset") :
           d < u /\ calls[d].st = "ok"
    /\ Cardinality(Ops("uploadReleaseAsset")) <= Len(inp.files)
    /\ \A k \in 1..Cardinality(Ops("uploadReleaseAsset")) :
           LET u == NthOp("uploadReleaseAsset", k) IN
               /\ calls[u].arg.name
                      = basename(inp.files[k])
               /\ u < Len(calls) => calls[u].st = "ok"
    /\ status = "Done" =>
           Cardinality(OkOps("uploadReleaseAsset")) = Len(inp.files)

\* The statement of C10 on the inputs that setFiles line 426 leaves as they
\* are.
C10_WithoutBackslash == NoBackslashInput => C10_DeleteThenUploadInOrder

C10_Witness ==
    /\ status = "Done"
    /\ Cardinality(OkOps("deleteReleaseAsset")) >= 2
    /\ Cardinality(OkOps("uploadReleaseAsset")) >= 2
    /\ calls[NthOp("uploadReleaseAsset", 1)].arg.name = "a.zip"
    /\ calls[NthOp("uploadReleaseAsset", 2)].arg.name = "b.zip"

----------------------------------------------------------------------------
\* C11

\* The commit a ref target stands for: a tag object's commit, or the commit
\* itself.
Peel(r, sha) ==
    IF \E i \in 1..Len(r.tagObjects) : r.tagObjects[i].sha = sha
    THEN r.tagObjects[CHOOSE i \in 1..Len(r.tagObjects) :
                          r.tagObjects[i].sha = sha].object
    ELSE sha

HasTag(r) == \E i \in 1..Len(r.tags) : r.tags[i].name = conn.tag
HasRelease(r) == \E i \in 1..Len(r.releases) : r.releases[i].name = conn.release
AssetNames(rel) == {rel.assets[k].name : k \in 1..Len(rel.assets)}

\* What the claim compares of a remote: the commit of the run's tag, the
\* number of releases of the run's name, that release's metadata and the
\* names of its assets.
Outcome(r) ==
    LET rel == r.releases[FirstNamed(r.releases, conn.release)] IN
        [tag |-> Peel(r, r.tags[FirstNamed(r.tags, conn.tag)].sha),
         releases |-> Cardinality({i \in 1..Len(r.releases) :
                                       r.releases[i].name = conn.release}),
         name |-> rel.name, tag_name |-> rel.tag_name, body |-> rel.body,
         draft |-> rel.draft, prerelease |-> rel.prerelease,
         assets |-> AssetNames(rel)]

\* The names a run uploads its files under (uploadAssets line 511).
UploadNames == {basename(conn.files[k]) : k \in 1..Len(conn.files)}

\* The outcomes of one uninterrupted successful run from remote r0.  They
\* differ only in the body, which an empty body input leaves to the race of
\* setBody with run().
UninterruptedOutcomes(r0) ==
    LET old == r0.releases[FirstNamed(r0.releases, conn.release)] IN
        {[tag |-> IF inp.updateTag \notin {"false", "no"} \/ ~HasTag(r0)
                  THEN inp.sha
                  ELSE Peel(r0, r0.tags[FirstNamed(r0.tags, conn.tag)].sha),
          releases |-> 1,
          name |-> conn.release,
          tag_name |-> IF HasRelease(r0) THEN old.tag_name ELSE conn.tag,
          body |-> b,
          draft |-> ExpectedDraft,
          prerelease |-> ExpectedPrerelease,
          assets |-> IF ReplaceAll \/ ~HasRelease(r0)
                     THEN UploadNames
                     ELSE UploadNames \cup AssetNames(old)] :
            b \in IF inp.body = "" THEN {"", CommitMessage} ELSE {inp.body}}

\* C11: a successful run ends in an outcome of an uninterrupted run from
\* its own start, and, when the run before it aborted, in an outcome of an
\* uninterrupted run from the remote that aborted run started from.
C11_SafeRerunAfterAbort ==
    status = "Done" =>
        /\ Outcome(remote) \in UninterruptedOutcomes(start)
        /\ (run >= 2 /\ prev.status = "Aborted") =>
               Outcome(remote) \in UninterruptedOutcomes(prev.start)

C11_Witness ==
    /\ status = "Done"
    /\ run >= 2
    /\ prev.status = "Aborted"
    /\ start.releases # prev.start.releases
    /\ Len(start.tagObjects) > Len(prev.start.tagObjects)
    /\ ~HasRelease(prev.start)

----------------------------------------------------------------------------
\* C12: the identifier resolution on its own, over refs built from up to
\* MaxRefSegments segments.

MaxRefSegments == 3

RefSegments ==
    { <<"r", "e", "f", "s">>, <<"h", "e", "a", "d", "s">>,
      <<"t", "a", "g", "s">>, <<"x">>, <<"v", "2", ".", "0">> }

RECURSIVE JoinSlash(_)
JoinSlash(segs) ==
    IF Len(segs) = 0 THEN <<>>
    ELSE IF Len(segs) = 1 THEN segs[1]
    ELSE segs[1] \o <<"/">> \o JoinSlash(Tail(segs))

RefInputs ==
    {JoinSlash(segs) :
        segs \in UNION {[1..n -> RefSegments] : n \in 1..MaxRefSegments}}
    \cup {RefsSlash \o HeadsSlash
              \o <<"f", "e", "a", "t", "u", "r", "e", "/", "x">>,
          RefsSlash \o HeadsSlash \o TagsSlash \o <<"x">>}

InitNames ==
    /\ \E rl \in {<<>>, V1}, t \in {<<>>, T2}, ref \in RefInputs :
          inp = [release |-> rl, tag |-> t, ref |-> ref, message |-> <<>>,
                 body |-> "notes", draft |-> "", prerelease |-> "",
                 replace |-> "", updateTag |-> "",
                 files |-> <<[abs |-> FALSE, segs |-> Plain(<<"b.zip">>)]>>,
                 fs |-> Fs, sha |-> 1]
    /\ remote = [tags |-> <<>>, tagObjects |-> <<>>, releases |-> <<>>,
                 nextId |-> 100]
    /\ start = remote
    /\ run = 0
    /\ status = "Idle"
    /\ exitCode = -1
    /\ pc = "idle"
    /\ conn = [release |-> UnknownRelease, tag |-> UnknownTag,
               message |-> <<>>, body |-> "", draft |-> FALSE,
               prerelease |-> FALSE, files |-> <<>>]
    /\ fetch = "none"
    /\ id = -1
    /\ assets = <<>>
    /\ ai = 0
    /\ fi = 0
    /\ calls = <<>>
    /\ prev = [status |-> "Idle", start |-> remote]

\* The constructor's call of setRelease (line 112).
SetRelease ==
    /\ pc = "idle"
    /\ pc' = "setRelease"
    /\ LET names == setRelease(inp.release, inp.tag, inp.ref)
       IN conn' = [conn EXCEPT !.release = names.release, !.tag = names.tag]
    /\ UNCHANGED <<inp, remote, start, run, status, exitCode, fetch, id,
                   assets, ai, fi, calls, prev>>

NextNames == SetRelease

SpecNames == InitNames /\ [][NextNames]_vars

IsPrefix(p, s) == Len(p) <= Len(s) /\ SubSeq(s, 1, Len(p)) = p
DropPrefix(p, s) == IF IsPrefix(p, s) THEN SubSeq(s, Len(p) + 1, Len(s)) ELSE s

\* The name the claim derives from a ref: a leading refs/ removed, then one
\* leading heads/ or tags/, then every / made a -.
ClaimedName(ref) ==
    LET a == DropPrefix(RefsSlash, ref)
        b == IF IsPrefix(HeadsSlash, a) THEN DropPrefix(HeadsSlash, a)
             ELSE DropPrefix(TagsSlash, a)
    IN [i \in 1..Len(b) |-> IF b[i] = "/" THEN "-" ELSE b[i]]

\* C12: with an empty release input the resolved release name is the ref
\* without its leading refs/ and leading heads/ or tags/, slashes turned
\* into dashes, later segments named refs, heads or tags being kept; with
\* an empty tag input the tag is the resolved release name.
C12_RefToName ==
    pc = "setRelease" =>
        /\ inp.release = <<>> => conn.release = ClaimedName(inp.ref)
        /\ inp.release # <<>> => conn.release = inp.release
        /\ inp.tag = <<>> => conn.tag = conn.release
        /\ inp.tag # <<>> => conn.tag = inp.tag

----------------------------------------------------------------------------
\* C13

InFlight == {i \in 1..Len(calls) : calls[i].st = "pending"}

\* C13: while the process lives, at most one remote call is in flight.
C13_SerialisedCalls ==
    status \in {"Running", "Done"} => Cardinality(InFlight) <= 1

----------------------------------------------------------------------------
\* C15

\* C15: createRelease is issued only while the remote has a tag of the
\* run's tag name, found at the start or made by a createTag and a
\* createRef of the run that both succeeded.
C15_NoReleaseWithoutTag ==
    Issued("createRelease") =>
        /\ HasTag(remote)
        /\ \/ TagExisted
           \/ /\ \E t \in OkOps("createTag"), rf \in OkOps("createRef") :
                     /\ t < rf
                     /\ rf < NthOp("createRelease", 1)
                     /\ calls[rf].arg.sha
                            \in {remote.tagObjects[k].sha :
                                     k \in 1..Len(remote.tagObjects)}

C15_Witness ==
    /\ OkOps("createRelease") # {}
    /\ ~TagExisted
    /\ HasTag(remote)

----------------------------------------------------------------------------
\* C17

\* C17: the tag object is created with the message input, or with
\* "<releaseName> (automatically created)" when that input is empty.
C17_TagMessage ==
    \A i \in Ops("createTag") :
        calls[i].arg.message
            = IF inp.message # <<>> THEN inp.message
              ELSE conn.release \o AutoSuffix

----------------------------------------------------------------------------
\* C14

\* The stage of run() that the awaited call belongs to: 1 the tag is being
\* resolved (Start), 2 the release is being resolved (TagResolved), 3 the
\* assets are being reconciled (ReleaseResolved), 4 the tag is being
\* repointed (AssetsReconciled), 5 run() has returned (Done).
StageRank(p) ==
    CASE p \in {"getTag", "createTag", "createRef", "getTagAgain"} -> 1
      [] p \in {"doesReleaseExist", "createRelease", "getReleaseID",
                "updateRelease"} -> 2
      [] p \in {"getReleaseAssets", "listReleaseAssets", "deleteReleaseAsset",
                "getReleaseUploadURL", "uploadReleaseAsset"} -> 3
      [] p = "updateRef" -> 4
      [] p = "done" -> 5
      [] OTHER -> 0

UploadsCompleted(log) ==
    Cardinality({i \in 1..Len(log) : /\ log[i].op = "uploadReleaseAsset"
                                     /\ log[i].st = "ok"})

StageStep ==
    run' = run =>
        /\ StageRank(pc') >= StageRank(pc)
        /\ StageRank(pc') # StageRank(pc) =>
               \/ StageRank(pc') = StageRank(pc) + 1
               \/ StageRank(pc) = 3 /\ pc' = "done"
        /\ (StageRank(pc) = 3 /\ StageRank(pc') > 3) =>
               /\ UploadsCompleted(calls') = Len(conn.files)
               /\ \A i \in 1..Len(calls') : calls'[i].st = "pending" =>
                      calls'[i].op \in {"updateRef", "getCommit"}
        /\ pc' = "updateRef" => ~isFalsyString(inp.updateTag)
        /\ status \in {"Done", "Aborted"} =>
               /\ Len(calls') = Len(calls)
               /\ remote' = remote
               /\ pc' = pc
               /\ status' # "Running"

AbortStep == Next /\ status' = "Aborted" /\ run' = run

\* C14: within a run the stages follow one another in the order Start,
\* TagResolved, ReleaseResolved, AssetsReconciled, optionally TagRepointed,
\* Done, none entered twice and none skipped; the repoint is issued only
\* when every upload has completed; a running stage can always abort; after
\* Done or Aborted no call is issued and the remote does not change.
C14_StageOrder ==
    /\ [][StageStep]_vars
    /\ [](status = "Running" => ENABLED AbortStep)

C14_Witness ==
    /\ status = "Done"
    /\ OkOps("createTag") # {}
    /\ OkOps("deleteReleaseAsset") # {}
    /\ Cardinality(OkOps("uploadReleaseAsset")) = 2
    /\ OkOps("updateRef") # {}

----------------------------------------------------------------------------
\* C16

RepointStep == pc = "updateRef" /\ pc' = "done"

\* C16: a repoint that succeeds leaves the tag of the run's tag name at the
\* current commit, whatever it referenced before, and changes no other tag,
\* no tag object, no release and no asset.
C16_RepointPostcondition ==
    [][RepointStep =>
          /\ Len(remote'.tags) = Len(remote.tags)
          /\ \E i \in 1..Len(remote.tags) : remote.tags[i].name = conn.tag
          /\ \A i \in 1..Len(remote.tags) :
                 IF remote.tags[i].name = conn.tag
                 THEN remote'.tags[i] = [name |-> conn.tag, sha |-> inp.sha]
                 ELSE remote'.tags[i] = remote.tags[i]
          /\ remote'.tagObjects = remote.tagObjects
          /\ remote'.releases = remote.releases
          /\ remote'.nextId = remote.nextId]_vars

C16_Witness ==
    /\ pc = "done"
    /\ OkOps("updateRef") # {}
    /\ OkOps("createTag") # {}
    /\ conn.tag # conn.release
    /\ \E i \in 1..Len(remote.tags) :
           remote.tags[i] = [name |-> conn.tag, sha |-> inp.sha]
    /\ \E i \in 1..Len(remote.tags) : remote.tags[i].sha # inp.sha

----------------------------------------------------------------------------
\* C20

UpdateStep == pc = "updateRelease" /\ pc' = "getReleaseAssets"

\* C20: the update of the release stage changes only the name, body, draft
\* and prerelease of the release named releaseName; its tag name, id and
\* assets, every other release and every tag stay as they were.
C20_UpdateFrame ==
    [][UpdateStep =>
          /\ remote'.tags = remote.tags
          /\ remote'.tagObjects = remote.tagObjects
          /\ remote'.nextId = remote.nextId
          /\ Len(remote'.releases) = Len(remote.releases)
          /\ FirstNamed(remote.releases, conn.release) # 0
          /\ \A i \in 1..Len(remote.releases) :
                 IF i = FirstNamed(remote.releases, conn.release)
                 THEN remote'.releases[i]
                          = [remote.releases[i] EXCEPT
                                 !.name = conn.release,
                                 !.body = remote'.releases[i].body,
                                 !.draft = conn.draft,
                                 !.prerelease = conn.prerelease]
                 ELSE remote'.releases[i] = remote.releases[i]]_vars

C20_Witness ==
    /\ status = "Running"
    /\ pc = "getReleaseAssets"
    /\ ReleaseExisted
    /\ Len(remote.releases) >= 2
    /\ TheRelease(remote).body # TheRelease(start).body
    /\ TheRelease(remote).tag_name # conn.tag
    /\ TheRelease(remote).assets # <<>>
    /\ TheRelease(remote).assets = TheRelease(start).assets

----------------------------------------------------------------------------
\* C18

AssetsOf(rel) == rel.assets

\* C18: when a run is done, every input basename names exactly one asset of
\* the release and no asset name occurs twice on it; with replace on the
\* asset names are the input basenames, otherwise the input basenames and
\* the names of the earlier assets that match no input basename.
C18_AssetPostcondition ==
    status = "Done" =>
        LET as == AssetsOf(TheRelease(remote))
            kept == {a.name : a \in {x \in ExistingAssets :
                                         x.name \notin InputBasenames}}
        IN /\ \A b \in InputBasenames :
                  Cardinality({k \in 1..Len(as) : as[k].name = b}) = 1
           /\ \A k, l \in 1..Len(as) : as[k].name = as[l].name => k = l
           /\ ReplaceAll => AssetNames(TheRelease(remote)) = InputBasenames
           /\ ~ReplaceAll =>
                  AssetNames(TheRelease(remote)) = InputBasenames \cup kept

\* The statement of C18 on the inputs that setFiles line 426 leaves as they
\* are.
C18_WithoutBackslash == NoBackslashInput => C18_AssetPostcondition

C18_Witness ==
    /\ status = "Done"
    /\ ReplaceAll
    /\ \E a \in ExistingAssets : a.name \notin InputBasenames
    /\ AssetNames(TheRelease(remote)) = InputBasenames

\* Two input files of one basename: the second upload is refused.
C18_SameBasenameWitness ==
    /\ status = "Aborted"
    /\ Len(inp.files) > Cardinality(InputBasenames)
    /\ calls # <<>>
    /\ calls[Len(calls)].op = "uploadReleaseAsset"
    /\ calls[Len(calls)].st = "failed"
    /\ Cardinality(OkOps("uploadReleaseAsset")) = 1

----------------------------------------------------------------------------
\* C19

\* The assets the deletion loop marks (lines 198-206).
MarkedSet == {a \in ExistingAssets : shouldDelete(a)}

DeleteIssuedFor == {calls[i].arg.asset_id : i \in Ops("deleteReleaseAsset")}
FailedDeletes ==
    {i \in Ops("deleteReleaseAsset") : calls[i].st = "failed"}
NotDeleted ==
    {a \in MarkedSet :
         a.id \notin {calls[i].arg.asset_id : i \in OkOps("deleteReleaseAsset")}}

\* C19: when the deletion of one marked asset has failed, a deletion has
\* still been issued for every marked asset of the deletion set.
C19_IndependentDeletions ==
    FailedDeletes # {} => DeleteIssuedFor = {a.id : a \in MarkedSet}

\* C19 (amended): a failed deletion ends the run at once with the failure
\* status; no call follows it, the deletions before it stand, and the
\* marked assets not yet deleted stay on the release.
C19_FailedDeletionAborts ==
    \A i \in FailedDeletes :
        /\ status = "Aborted"
        /\ exitCode = ExitFailure
        /\ i = Len(calls)
        /\ Cardinality(FailedDeletes) = 1
        /\ \A j \in Ops("deleteReleaseAsset") : j < i => calls[j].st = "ok"
        /\ NotDeleted \subseteq AssetsNow
        /\ \A a \in MarkedSet \ NotDeleted : a \notin AssetsNow
        /\ Ops("uploadReleaseAsset") = {}

C19_Witness ==
    /\ status = "Aborted"
    /\ FailedDeletes # {}
    /\ \E a \in MarkedSet : a.id \notin DeleteIssuedFor /\ a \in AssetsNow
    /\ remote = start

C19_SecondFailsWitness ==
    /\ status = "Aborted"
    /\ FailedDeletes # {}
    /\ OkOps("deleteReleaseAsset") # {}
    /\ Cardinality(NotDeleted) = 1

====
